---- MODULE Spec2Model ----
(***************************************************************************)
(* A model of the Intcode computer of ferricode: the instruction decoder   *)
(* (src/src/instruction.rs), the sparse memory (src/src/memory.rs) and the *)
(* fetch-execute engine (src/src/intcode.rs).                              *)
(*                                                                         *)
(* Number representation.  Memory words are Rust i32 and are modelled by   *)
(* the integers MinI32..MaxI32.  The registers instruction_pointer and     *)
(* relative_base are Rust usize (64 bit).  A usize u is modelled by its    *)
(* two's complement reading s: s = u when u < 2^63 and s = u - 2^64        *)
(* otherwise, so that a negative s denotes the usize s + 2^64.  The model  *)
(* follows a run only while every register's reading stays inside          *)
(* MinI32..MaxI32 (the field `beyond` of a machine record marks a step     *)
(* that would leave this window; such a step is not taken).                *)
(***************************************************************************)
EXTENDS Integers, Sequences, FiniteSets, TLC

VARIABLES
    memory,               \* Computer.memory: HashMap<usize, i32>
    instruction_pointer,  \* Computer.instruction_pointer: usize
    relative_base,        \* Computer.relative_base: usize
    input,                \* Computer.input: VecDeque<i32>
    output,               \* Computer.output: Vec<i32>
    status,               \* "running" | "returned" | "panicked" (of run / try_from)
    panic,                \* the panic that ended the run, "none" otherwise
    overflow_checks,      \* build profile: TRUE = debug (overflow panics), FALSE = release (wraps)
    fetched,              \* the i32 last handed to Instruction::try_from
    instruction,          \* what try_from made of it
    last,                 \* what the last step_forward did (history)
    hist,                 \* the arguments of Computer::new and counters (history)
    range                 \* the last write_range / read_range call on memory (history)

vars == <<memory, instruction_pointer, relative_base, input, output, status,
          panic, overflow_checks, fetched, instruction, last, hist, range>>

----------------------------------------------------------------------------
(* Bounds of the model *)

MaxLen == 3
MaxInput == 2
MaxSteps == 90
DecodeBound == 33500
MaxStart == 2
MaxData == 2

(* i32::MAX *)
MaxI32 == 2147483647

MinI32 == -MaxI32 - 1

----------------------------------------------------------------------------
(* Machine arithmetic *)

(* Rust's `a % b` on i32: the remainder has the sign of the dividend. *)
RustRem(a, b) ==
    IF a >= 0 THEN a % b
    ELSE IF a = MinI32 THEN -(((MaxI32 % b) + 1) % b)
    ELSE -((-a) % b)

(* (value as u32) % n, for n in 1..MaxI32: a negative value is read as *)
(* value + 2^32 = (value + 2^31) + 2^31.                                *)
U32Rem(value, n) ==
    IF value >= 0 THEN value % n
    ELSE LET h == value + MaxI32 + 1
             r == ((MaxI32 % n) + 1) % n
         IN  ((h % n) + r) % n

(* (value as u32) / n, for n in 2..MaxI32 *)
U32Div(value, n) ==
    IF value >= 0 THEN value \div n
    ELSE LET h == value + MaxI32 + 1
             q == IF MaxI32 % n = n - 1 THEN (MaxI32 \div n) + 1 ELSE MaxI32 \div n
             r == ((MaxI32 % n) + 1) % n
         IN  (h \div n) + q + (((h % n) + r) \div n)

(* a + b on i32: [val, overflow]; val is the wrapped sum *)
I32Add(a, b) ==
    IF a > 0 /\ b > MaxI32 - a
    THEN [val |-> (a - MaxI32 - 1) + (b - MaxI32 - 1), overflow |-> TRUE]
    ELSE IF a < 0 /\ b < MinI32 - a
    THEN [val |-> (a + MaxI32 + 1) + (b + MaxI32 + 1), overflow |-> TRUE]
    ELSE [val |-> a + b, overflow |-> FALSE]

(* the four bytes of an i32 in two's complement, least significant first *)
Bytes(a) ==
    LET u == IF a >= 0 THEN a ELSE a + MaxI32 + 1     \* the low 31 bits
        b3 == (u \div 16777216) + (IF a < 0 THEN 128 ELSE 0)
    IN  <<u % 256, (u \div 256) % 256, (u \div 65536) % 256, b3>>

FromBytes(r) ==
    IF r[4] >= 128
    THEN (((r[4] - 128) * 16777216 + r[3] * 65536 + r[2] * 256 + r[1]) - MaxI32) - 1
    ELSE r[4] * 16777216 + r[3] * 65536 + r[2] * 256 + r[1]

(* a * b wrapped to 32 bits (i32::wrapping_mul), by schoolbook columns *)
WrappingMul(a, b) ==
    LET x == Bytes(a)
        y == Bytes(b)
        c0 == x[1] * y[1]
        c1 == x[2] * y[1] + x[1] * y[2] + (c0 \div 256)
        c2 == x[3] * y[1] + x[2] * y[2] + x[1] * y[3] + (c1 \div 256)
        c3 == x[4] * y[1] + x[3] * y[2] + x[2] * y[3] + x[1] * y[4] + (c2 \div 256)
    IN  FromBytes(<<c0 % 256, c1 % 256, c2 % 256, c3 % 256>>)

Abs(a) == IF a < 0 THEN -a ELSE a

(* a * b on i32: [val, overflow] *)
I32Mul(a, b) ==
    LET over ==
            IF a = 0 \/ b = 0 THEN FALSE
            ELSE IF a = MinI32 THEN b # 1
            ELSE IF b = MinI32 THEN a # 1
            ELSE IF (a > 0) = (b > 0) THEN Abs(a) > MaxI32 \div Abs(b)
            ELSE /\ Abs(a) > MaxI32 \div Abs(b)
                 /\ ~(Abs(a) = (MaxI32 \div Abs(b)) + 1 /\ MaxI32 % Abs(b) = Abs(b) - 1)
    IN  [val |-> IF over THEN WrappingMul(a, b) ELSE a * b, overflow |-> over]

(* I32AsUsize as `v.unsigned_abs() as usize`: the magnitude of v *)
I32AsUsize_Magnitude(v) == IF v < 0 /\ v > MinI32 THEN -v ELSE v

(* `v as usize` for an i32 v: sign extension, so the reading is v itself *)
I32AsUsize(v) == v

(* `u as i32` for a usize u: its low 32 bits; on the modelled window the *)
(* reading is already an i32                                             *)
UsizeAsI32(u) == u

(* a + b on usize readings: [val, overflow, beyond].  The unsigned sum    *)
(* carries out of 64 bits when both readings are negative, or when one is *)
(* and the sum of the readings is not.                                    *)
UsizeAdd(a, b) ==
    LET s == I32Add(a, b)
        carry == IF a >= 0 /\ b >= 0 THEN FALSE
                 ELSE IF a < 0 /\ b < 0 THEN TRUE
                 ELSE a + b >= 0
    IN  [val |-> s.val, overflow |-> carry, beyond |-> s.overflow]

----------------------------------------------------------------------------
(* Instruction decoder: impl TryFrom<i32> for Instruction *)

OpCodes == {"Add", "Mul", "Input", "Output", "JumpIfZero", "JumpIfNotZero",
            "StoreIfLessThan", "StoreIfEquals", "IncrementRelativeBase", "Halt"}

ParameterModes == {"Position", "Immediate", "Relative"}

Err == [kind |-> "Err", op_code |-> "None", parameter_modes |-> <<>>]

Unreachable == [kind |-> "Unreachable", op_code |-> "None", parameter_modes |-> <<>>]

Ok(op, modes) == [kind |-> "Ok", op_code |-> op, parameter_modes |-> modes]

(* RejectedEarly with the exemption made for the remainder 99 instead of the value 99 *)
RejectedEarly_ByRemainder(value) ==
    LET numeric_op_code == RustRem(value, 100)
    IN  ~(numeric_op_code \in 0..9) /\ numeric_op_code # 99

(* the guard of the first return: !(0..=9).contains(&numeric_op_code) && value != 99 *)
RejectedEarly(value) ==
    LET numeric_op_code == RustRem(value, 100)
    IN  ~(numeric_op_code \in 0..9) /\ value # 99

(* OpCodeOf with the two jumps exchanged *)
OpCodeOf_JumpsSwapped(n) ==
    CASE n = 1 -> "Add"
      [] n = 2 -> "Mul"
      [] n = 3 -> "Input"
      [] n = 4 -> "Output"
      [] n = 5 -> "JumpIfZero"
      [] n = 6 -> "JumpIfNotZero"
      [] n = 7 -> "StoreIfLessThan"
      [] n = 8 -> "StoreIfEquals"
      [] n = 9 -> "IncrementRelativeBase"
      [] n = 99 -> "Halt"
      [] OTHER -> "None"

(* match value % 100 { ... } on the u32; "None" is the `_` arm *)
OpCodeOf(n) ==
    CASE n = 1 -> "Add"
      [] n = 2 -> "Mul"
      [] n = 3 -> "Input"
      [] n = 4 -> "Output"
      [] n = 5 -> "JumpIfNotZero"
      [] n = 6 -> "JumpIfZero"
      [] n = 7 -> "StoreIfLessThan"
      [] n = 8 -> "StoreIfEquals"
      [] n = 9 -> "IncrementRelativeBase"
      [] n = 99 -> "Halt"
      [] OTHER -> "None"

(* ParameterCount with three parameters for every operation but Halt *)
ParameterCount_AlwaysThree(op_code) == IF op_code = "Halt" THEN 0 ELSE 3

ParameterCount(op_code) ==
    CASE op_code \in {"Add", "Mul", "StoreIfLessThan", "StoreIfEquals"} -> 3
      [] op_code \in {"JumpIfNotZero", "JumpIfZero"} -> 2
      [] op_code \in {"Input", "Output", "IncrementRelativeBase"} -> 1
      [] op_code = "Halt" -> 0

Pow10(k) == IF k = 0 THEN 1 ELSE IF k = 1 THEN 10 ELSE IF k = 2 THEN 100
            ELSE IF k = 3 THEN 1000 ELSE IF k = 4 THEN 10000 ELSE 100000

(* ModeDigit reading one digit too low: 10_u32.pow(param + 1) *)
ModeDigit_OffByOne(value, param) == U32Div(value, Pow10(param + 1)) % 10

(* value / 10_u32.pow(param + 2) % 10, param counted from 0 *)
ModeDigit(value, param) == U32Div(value, Pow10(param + 2)) % 10

ModeOf(digit) ==
    CASE digit = 0 -> "Position"
      [] digit = 1 -> "Immediate"
      [] digit = 2 -> "Relative"
      [] OTHER -> "None"

(* parameter_modes after the loop `for param in 0..parameter_count`; an *)
(* entry "None" stands for the arm `_ => unreachable!()`                *)
ModesOf(value, parameter_count) ==
    [p \in 1..parameter_count |-> ModeOf(ModeDigit(value, p - 1))]

Decoded(op_code, modes) ==
    IF \E p \in DOMAIN modes : modes[p] = "None" THEN Unreachable ELSE Ok(op_code, modes)

TryFrom(value) ==
    IF RejectedEarly(value) THEN Err
    ELSE IF OpCodeOf(U32Rem(value, 100)) = "None" THEN Err
    ELSE Decoded(OpCodeOf(U32Rem(value, 100)),
                 ModesOf(value, ParameterCount(OpCodeOf(U32Rem(value, 100)))))

----------------------------------------------------------------------------
(* Memory: ComputerMemory = HashMap<usize, i32>, a function on its keys *)

EmptyMemory == [a \in {} |-> 0]

(* HashMap::insert *)
Insert(mem, addr, value) ==
    [a \in (DOMAIN mem) \cup {addr} |-> IF a = addr THEN value ELSE mem[a]]

(* ReadMemory with the address itself as the content of an absent key *)
ReadMemory_DefaultsToAddress(mem, addr) == IF addr \in DOMAIN mem THEN mem[addr] ELSE addr

(* Computer::read_memory: *self.memory.get(&addr).unwrap_or(&0) *)
ReadMemory(mem, addr) == IF addr \in DOMAIN mem THEN mem[addr] ELSE 0

(* RangeAddressable::write_range: for addr in range { insert(addr, data[addr]) }; *)
(* the range is start..end and Rust indexes data from 0.  An index past the    *)
(* data panics: the result is then "IndexPanic".                                *)
RECURSIVE WriteRangeFrom(_, _, _, _)
WriteRangeFrom(mem, addr, end, data) ==
    IF addr >= end THEN mem
    ELSE IF addr + 1 > Len(data) THEN "IndexPanic"
    ELSE WriteRangeFrom(Insert(mem, addr, data[addr + 1]), addr + 1, end, data)

WriteRange(mem, start, end, data) == WriteRangeFrom(mem, start, end, data)

(* RangeAddressable::read_range: range.map(|addr| get(addr).unwrap_or(0)) *)
ReadRange(mem, start, end) ==
    [i \in 1..(IF end > start THEN end - start ELSE 0) |-> ReadMemory(mem, start + i - 1)]

----------------------------------------------------------------------------
(* The engine: struct Computer.  A machine record m carries the fields of  *)
(* the Computer through one step_forward, with what the step did so far:   *)
(*   panic   "none", or the panic that unwound the step                    *)
(*   beyond  a register would leave the modelled window                    *)
(*   ret     the value the last read_addr / read_value returned            *)
(*   addrs   the addresses read_addr computed, before its check, in order  *)
(*   derefs  the addresses read_value dereferenced, in order               *)
(*   vals    the values read_value returned, in order                      *)
(*   writes  the <<address, word>> pairs write_memory stored, in order     *)

Machine(mem, ip, rb, inp, out) ==
    [memory |-> mem, instruction_pointer |-> ip, relative_base |-> rb,
     input |-> inp, output |-> out,
     panic |-> "none", beyond |-> FALSE, ret |-> 0,
     addrs |-> <<>>, derefs |-> <<>>, vals |-> <<>>, writes |-> <<>>]

(* Computer::new *)
New(initial_memory, inp) ==
    Machine(WriteRange(EmptyMemory, 0, Len(initial_memory), initial_memory), 0, 0, inp, <<>>)

Live(m) == m.panic = "none" /\ ~m.beyond

(* Panicked with the panic swallowed: the machine goes on as it was *)
Panicked_Recovers(m, what) == m

Panicked(m, what) == [m EXCEPT !.panic = what]

(* `let x = e; body`: the value e is computed once and named x in body *)
(* (x ranges over the one-element set {e}, so that it is a value)      *)
Let(e, body(_)) == CHOOSE y \in {body(x) : x \in {e}} : TRUE

(* self.instruction_pointer += 1 *)
AdvancePointer(m, checks) ==
    Let(UsizeAdd(m.instruction_pointer, 1), LAMBDA s :
        IF s.beyond THEN [m EXCEPT !.beyond = TRUE]
        ELSE IF s.overflow /\ checks THEN Panicked(m, "overflow")
        ELSE [m EXCEPT !.instruction_pointer = s.val])

(* WriteMemory storing the word at the address and at the one after it *)
WriteMemory_Spills(m, addr, value) ==
    [m EXCEPT !.memory = Insert(Insert(m.memory, addr, value), addr + 1, value),
              !.writes = Append(m.writes, <<addr, value>>)]

(* Computer::write_memory *)
WriteMemory(m, addr, value) ==
    [m EXCEPT !.memory = Insert(m.memory, addr, value),
              !.writes = Append(m.writes, <<addr, value>>)]

(* AddressRejected with the check left out *)
AddressRejected_Never(addr) == FALSE

(* the check of read_addr: if addr < 0 { panic!("Invalid address") } *)
AddressRejected(addr) == addr < 0

(* Computer::read_addr *)
ReadAddr(m, mode, checks) ==
    IF ~Live(m) THEN m
    ELSE
    Let(ReadMemory(m.memory, m.instruction_pointer), LAMBDA value :
    Let(AdvancePointer(m, checks), LAMBDA m1 :
    Let(I32Add(UsizeAsI32(m.relative_base), value), LAMBDA sum :
    Let(IF mode = "Relative" THEN sum.val ELSE value, LAMBDA addr :
        IF ~Live(m1) THEN m1
        ELSE IF mode = "Relative" /\ sum.overflow /\ checks THEN Panicked(m1, "overflow")
        ELSE IF AddressRejected(addr)
        THEN [m1 EXCEPT !.addrs = Append(@, addr), !.panic = "invalid_address"]
        ELSE [m1 EXCEPT !.addrs = Append(@, addr), !.ret = I32AsUsize(addr)]))))

(* ReadValue with an Immediate parameter read in place: the pointer stays *)
ReadValue_ImmediateStays(m, mode, checks) ==
    IF ~Live(m) THEN m
    ELSE IF mode = "Immediate"
    THEN
    Let(ReadMemory(m.memory, m.instruction_pointer), LAMBDA value :
        [m EXCEPT !.ret = value, !.vals = Append(@, value)])
    ELSE
    Let(ReadAddr(m, mode, checks), LAMBDA m1 :
        IF ~Live(m1) THEN m1
        ELSE
        Let(ReadMemory(m1.memory, m1.ret), LAMBDA value :
            [m1 EXCEPT !.ret = value,
                       !.derefs = Append(@, m1.ret),
                       !.vals = Append(@, value)]))

(* Computer::read_value *)
ReadValue(m, mode, checks) ==
    IF ~Live(m) THEN m
    ELSE IF mode = "Immediate"
    THEN
    Let(ReadMemory(m.memory, m.instruction_pointer), LAMBDA value :
    Let(AdvancePointer(m, checks), LAMBDA m1 :
        IF ~Live(m1) THEN m1
        ELSE [m1 EXCEPT !.ret = value, !.vals = Append(@, value)]))
    ELSE
    Let(ReadAddr(m, mode, checks), LAMBDA m1 :
        IF ~Live(m1) THEN m1
        ELSE
        Let(ReadMemory(m1.memory, m1.ret), LAMBDA value :
            [m1 EXCEPT !.ret = value,
                       !.derefs = Append(@, m1.ret),
                       !.vals = Append(@, value)]))

(* the arms of `match instruction.op_code` in step_forward *)

ExecAdd(m, modes, checks) ==
    Let(ReadValue(m, modes[1], checks), LAMBDA arg1 :
    Let(ReadValue(arg1, modes[2], checks), LAMBDA arg2 :
    Let(ReadAddr(arg2, modes[3], checks), LAMBDA addr :
        IF ~Live(addr) THEN addr
        ELSE
        Let(I32Add(arg1.ret, arg2.ret), LAMBDA r :
            IF r.overflow /\ checks THEN Panicked(addr, "overflow")
            ELSE WriteMemory(addr, addr.ret, r.val)))))

ExecMul(m, modes, checks) ==
    Let(ReadValue(m, modes[1], checks), LAMBDA arg1 :
    Let(ReadValue(arg1, modes[2], checks), LAMBDA arg2 :
    Let(ReadAddr(arg2, modes[3], checks), LAMBDA addr :
        IF ~Live(addr) THEN addr
        ELSE
        Let(I32Mul(arg1.ret, arg2.ret), LAMBDA r :
            IF r.overflow /\ checks THEN Panicked(addr, "overflow")
            ELSE WriteMemory(addr, addr.ret, r.val)))))

(* ExecInput with pop_front().unwrap_or(0): an empty queue yields 0 *)
ExecInput_DefaultsToZero(m, modes, checks) ==
    Let(ReadAddr(m, modes[1], checks), LAMBDA addr :
        IF ~Live(addr) THEN addr
        ELSE IF addr.input = <<>> THEN WriteMemory(addr, addr.ret, 0)
        ELSE WriteMemory([addr EXCEPT !.input = Tail(@)], addr.ret, Head(addr.input)))

(* ExecInput with pop_back() in place of pop_front() *)
ExecInput_PopsBack(m, modes, checks) ==
    Let(ReadAddr(m, modes[1], checks), LAMBDA addr :
        IF ~Live(addr) THEN addr
        ELSE IF addr.input = <<>> THEN Panicked(addr, "input_exhausted")
        ELSE WriteMemory([addr EXCEPT !.input = SubSeq(@, 1, Len(@) - 1)],
                         addr.ret, addr.input[Len(addr.input)]))

ExecInput(m, modes, checks) ==
    Let(ReadAddr(m, modes[1], checks), LAMBDA addr :
        IF ~Live(addr) THEN addr
        ELSE IF addr.input = <<>> THEN Panicked(addr, "input_exhausted")
        ELSE WriteMemory([addr EXCEPT !.input = Tail(@)], addr.ret, Head(addr.input)))

(* ExecOutput with the value put at the front of the output *)
ExecOutput_Prepends(m, modes, checks) ==
    Let(ReadValue(m, modes[1], checks), LAMBDA value :
        IF ~Live(value) THEN value
        ELSE [value EXCEPT !.output = <<value.ret>> \o @])

ExecOutput(m, modes, checks) ==
    Let(ReadValue(m, modes[1], checks), LAMBDA value :
        IF ~Live(value) THEN value
        ELSE [value EXCEPT !.output = Append(@, value.ret)])

(* ExecJumpIfZero with the target resolved by read_addr: the parameter *)
(* itself, not the word it designates, is the target                    *)
ExecJumpIfZero_TargetIsAddress(m, modes, checks) ==
    Let(ReadValue(m, modes[1], checks), LAMBDA test :
    Let(ReadAddr(test, modes[2], checks), LAMBDA addr :
        IF ~Live(addr) THEN addr
        ELSE IF test.ret = 0
        THEN [addr EXCEPT !.instruction_pointer = addr.ret, !.vals = Append(@, addr.ret)]
        ELSE [addr EXCEPT !.vals = Append(@, addr.ret)]))

(* if test == 0 { self.instruction_pointer = addr } *)
ExecJumpIfZero(m, modes, checks) ==
    Let(ReadValue(m, modes[1], checks), LAMBDA test :
    Let(ReadValue(test, modes[2], checks), LAMBDA addr :
        IF ~Live(addr) THEN addr
        ELSE IF test.ret = 0 THEN [addr EXCEPT !.instruction_pointer = I32AsUsize(addr.ret)]
        ELSE addr))

(* if test != 0 { self.instruction_pointer = addr } *)
ExecJumpIfNotZero(m, modes, checks) ==
    Let(ReadValue(m, modes[1], checks), LAMBDA test :
    Let(ReadValue(test, modes[2], checks), LAMBDA addr :
        IF ~Live(addr) THEN addr
        ELSE IF test.ret # 0 THEN [addr EXCEPT !.instruction_pointer = I32AsUsize(addr.ret)]
        ELSE addr))

(* ExecStoreIfLessThan with `arg1 <= arg2` as the test *)
ExecStoreIfLessThan_OrEqual(m, modes, checks) ==
    Let(ReadValue(m, modes[1], checks), LAMBDA arg1 :
    Let(ReadValue(arg1, modes[2], checks), LAMBDA arg2 :
    Let(ReadAddr(arg2, modes[3], checks), LAMBDA addr :
        IF ~Live(addr) THEN addr
        ELSE WriteMemory(addr, addr.ret, IF arg1.ret <= arg2.ret THEN 1 ELSE 0))))

ExecStoreIfLessThan(m, modes, checks) ==
    Let(ReadValue(m, modes[1], checks), LAMBDA arg1 :
    Let(ReadValue(arg1, modes[2], checks), LAMBDA arg2 :
    Let(ReadAddr(arg2, modes[3], checks), LAMBDA addr :
        IF ~Live(addr) THEN addr
        ELSE WriteMemory(addr, addr.ret, IF arg1.ret < arg2.ret THEN 1 ELSE 0))))

(* ExecStoreIfEquals with `arg1 != arg2` as the test *)
ExecStoreIfEquals_Negated(m, modes, checks) ==
    Let(ReadValue(m, modes[1], checks), LAMBDA arg1 :
    Let(ReadValue(arg1, modes[2], checks), LAMBDA arg2 :
    Let(ReadAddr(arg2, modes[3], checks), LAMBDA addr :
        IF ~Live(addr) THEN addr
        ELSE WriteMemory(addr, addr.ret, IF arg1.ret # arg2.ret THEN 1 ELSE 0))))

ExecStoreIfEquals(m, modes, checks) ==
    Let(ReadValue(m, modes[1], checks), LAMBDA arg1 :
    Let(ReadValue(arg1, modes[2], checks), LAMBDA arg2 :
    Let(ReadAddr(arg2, modes[3], checks), LAMBDA addr :
        IF ~Live(addr) THEN addr
        ELSE WriteMemory(addr, addr.ret, IF arg1.ret = arg2.ret THEN 1 ELSE 0))))

(* self.relative_base += offset as usize *)
ExecIncrementRelativeBase(m, modes, checks) ==
    Let(ReadValue(m, modes[1], checks), LAMBDA offset :
        IF ~Live(offset) THEN offset
        ELSE
        Let(UsizeAdd(offset.relative_base, I32AsUsize(offset.ret)), LAMBDA s :
            IF s.beyond THEN [offset EXCEPT !.beyond = TRUE]
            ELSE IF s.overflow /\ checks THEN Panicked(offset, "overflow")
            ELSE [offset EXCEPT !.relative_base = s.val]))

Execute(m, instr, checks) ==
    CASE instr.op_code = "Add" -> ExecAdd(m, instr.parameter_modes, checks)
      [] instr.op_code = "Mul" -> ExecMul(m, instr.parameter_modes, checks)
      [] instr.op_code = "Input" -> ExecInput(m, instr.parameter_modes, checks)
      [] instr.op_code = "Output" -> ExecOutput(m, instr.parameter_modes, checks)
      [] instr.op_code = "JumpIfZero" -> ExecJumpIfZero(m, instr.parameter_modes, checks)
      [] instr.op_code = "JumpIfNotZero" -> ExecJumpIfNotZero(m, instr.parameter_modes, checks)
      [] instr.op_code = "StoreIfLessThan" -> ExecStoreIfLessThan(m, instr.parameter_modes, checks)
      [] instr.op_code = "StoreIfEquals" -> ExecStoreIfEquals(m, instr.parameter_modes, checks)
      [] instr.op_code = "IncrementRelativeBase" ->
             ExecIncrementRelativeBase(m, instr.parameter_modes, checks)

(* StepForward with `self.instruction_pointer += 1` placed before the Halt test *)
StepForward_AdvancesOnHalt(m, checks) ==
    Let(ReadMemory(m.memory, m.instruction_pointer), LAMBDA word :
    Let(TryFrom(word), LAMBDA instr :
        [word |-> word,
         instruction |-> instr,
         halt |-> instr.op_code = "Halt",
         m |-> IF instr.kind = "Err" THEN Panicked(m, "decode")
               ELSE IF instr.kind = "Unreachable" THEN Panicked(m, "unreachable")
               ELSE IF instr.op_code = "Halt" THEN AdvancePointer(m, checks)
               ELSE Execute(AdvancePointer(m, checks), instr, checks)]))

(* StepForward decoding the word the image had at the pointer, where it had one *)
StepForward_DecodesImage(m, checks) ==
    Let(IF (m.instruction_pointer + 1) \in DOMAIN hist.image
        THEN hist.image[m.instruction_pointer + 1]
        ELSE ReadMemory(m.memory, m.instruction_pointer), LAMBDA word :
    Let(TryFrom(word), LAMBDA instr :
        [word |-> word,
         instruction |-> instr,
         halt |-> instr.op_code = "Halt",
         m |-> IF instr.kind = "Err" THEN Panicked(m, "decode")
               ELSE IF instr.kind = "Unreachable" THEN Panicked(m, "unreachable")
               ELSE IF instr.op_code = "Halt" THEN m
               ELSE Execute(AdvancePointer(m, checks), instr, checks)]))

(* Computer::step_forward: [m, halt, word, instruction]; halt is its return *)
(* value, word what it fetched and instruction what try_from made of it     *)
StepForward(m, checks) ==
    Let(ReadMemory(m.memory, m.instruction_pointer), LAMBDA word :
    Let(TryFrom(word), LAMBDA instr :
        [word |-> word,
         instruction |-> instr,
         halt |-> instr.op_code = "Halt",
         m |-> IF instr.kind = "Err" THEN Panicked(m, "decode")
               ELSE IF instr.kind = "Unreachable" THEN Panicked(m, "unreachable")
               ELSE IF instr.op_code = "Halt" THEN m
               ELSE Execute(AdvancePointer(m, checks), instr, checks)]))

----------------------------------------------------------------------------
(* The runs the model follows: the programs of the tests of intcode.rs,    *)
(* programs for the edges of the arithmetic, and every program of at most  *)
(* MaxLen words over Words, each with every prefix of Feed as input.       *)

Case(image, inp) == [image |-> image, input |-> inp]

TestCases ==
    { Case(<<1, 0, 0, 0, 99>>, <<>>),
      Case(<<2, 3, 0, 3, 99>>, <<>>),
      Case(<<2, 4, 4, 5, 99, 0>>, <<>>),
      Case(<<1, 1, 1, 4, 99, 5, 6, 0, 99>>, <<>>),
      Case(<<3, 0, 4, 0, 99>>, <<42>>),
      Case(<<1002, 4, 3, 4, 33>>, <<>>),
      Case(<<1101, 100, -1, 4, 0>>, <<>>),
      Case(<<109, 2000, 204, -34, 99>>, <<>>),
      Case(<<109, 1, 9, 2, 204, -6, 99>>, <<>>),
      Case(<<109, 1, 109, 9, 204, -6, 99>>, <<>>),
      Case(<<109, 1, 209, -1, 204, -106, 99>>, <<>>),
      Case(<<109, 1, 3, 3, 204, 2, 99>>, <<42>>),
      Case(<<109, 1, 203, 2, 204, 2, 99>>, <<42>>),
      Case(<<109, 1, 204, -1, 1001, 100, 1, 100, 1008, 100, 16, 101, 1006, 101, 0, 99>>, <<>>),
      Case(<<4, 17, 4, 19, 1001, 17, 1, 17, 8, 17, 18, 16, 1006, 16, 0, 99, -1, 1, 11, 32>>, <<>>),
      Case(<<4, 3, 101, 72, 14, 3, 101, 1, 4, 4, 5, 3, 16, 99,
             29, 7, 0, 3, -67, -12, 87, -8, 3, -6, -8, -67, -23, -10>>, <<>>) }

EdgeCases ==
    { Case(<<109, 5, 109, -2, 204, 0, 99>>, <<>>),
      Case(<<109, -3, 109, 3, 109, -1, 99>>, <<>>),
      Case(<<109, 7, 203, 3, 3, 11, 203, 5, 99>>, <<11, 22>>),
      Case(<<109, 1, 2001, 0, -5, 0, 99>>, <<>>),
      Case(<<3, 7, 103, 8, 203, 9, 3, 0, 0, 0>>, <<5, 6, 7>>),
      Case(<<3, 2, 0>>, <<199>>),
      Case(<<3, 2, 0>>, <<301>>),
      Case(<<3, 2, 0>>, <<30003>>),
      Case(<<3, 2, 0>>, <<-99>>),
      Case(<<1101, MaxI32, 1, 0, 99>>, <<>>),
      Case(<<1102, 65536, 65537, 0, 99>>, <<>>),
      Case(<<109, MaxI32, 109, 1, 99>>, <<>>),
      Case(<<109, MaxI32, 203, 1, 99>>, <<8>>),
      Case(<<109, MaxI32, 203, 1, 99>>, <<>>),
      Case(<<109, -3, 203, MinI32, 99>>, <<>>),
      Case(<<1105, 1, -1>>, <<>>),
      Case(<<1106, 0, 4, 99, 104, 9, 1005, 0, 3>>, <<>>),
      Case(<<1101, 1, 2, MaxI32 - 1, 4, MaxI32 - 1, 4, 1966, 1101, 5, 6, MaxI32 - 1,
             4, MaxI32 - 1, 99>>, <<>>),
      Case(<<5, 0, 4, 99, 6, 99, 6, 3, 4, 99>>, <<>>),
      Case(<<6, 3, 4, 0, 7, 99, 99, 5, 3, 0, 99>>, <<>>),
      Case(<<109, 2, 2205, -2, 3, 8, 99, 99, 2206, -2, 0, 99>>, <<>>),
      Case(<<109, 2, 2206, 100, 3, 7, 99, 1105, 0, 0, 99>>, <<>>),
      Case(<<1005, 0, -4>>, <<>>),
      Case(<<109, MaxI32, 204, 1, 99>>, <<>>),
      Case(<<104, 7, 109, 1, 21101, 3, 4, -2, 99>>, <<>>),
      Case(<<5, 0, 3, -7>>, <<>>),
      Case(<<109, 1, 2206, 9, 4, -2>>, <<>>),
      Case(<<104, 5, 1101, 1, 1, 20, 1105, 1, MinI32>>, <<>>),
      Case(<<109, MaxI32 - 1, 204, 1, 2201, -MaxI32 + 1, 1, 1, 99>>, <<>>) }

Words == {-1, 0, 1, 3, 99, 103, 109, 203, 204, 301, 1105, 1106}

RECURSIVE SeqsOfLen(_, _)
SeqsOfLen(S, n) ==
    IF n = 0 THEN {<<>>}
    ELSE {Append(q, w) : q \in SeqsOfLen(S, n - 1), w \in S}

SmallImages == UNION {SeqsOfLen(Words, n) : n \in 1..MaxLen}

(* the i-th word of the input feed of the small programs *)
Feed(i) == IF i = 1 THEN 99 ELSE IF i = 2 THEN -7 ELSE 40 + i

SmallCases == {Case(p, [i \in 1..n |-> Feed(i)]) : p \in SmallImages, n \in 0..MaxInput}

(* comparisons of every pair of Operands, with the operands in Immediate, *)
(* Position and Relative mode                                            *)
Operands == {MinI32, -1, 0, 1, MaxI32}

CompareCases ==
    UNION {{Case(<<1107, a, b, 9, 1108, a, b, 10, 99>>, <<>>),
            Case(<<7, 9, 10, 11, 8, 9, 10, 12, 99, a, b>>, <<>>),
            Case(<<109, 3, 22207, 8, 9, 10, 22208, 8, 9, 11, 99, a, b>>, <<>>)} :
           a \in Operands, b \in Operands}

Cases == TestCases \cup EdgeCases \cup CompareCases \cup SmallCases

----------------------------------------------------------------------------
(* The state machine *)

NoInstruction == [kind |-> "None", op_code |-> "None", parameter_modes |-> <<>>]

NoRange == [op |-> "none", start |-> 0, end |-> 0, data |-> <<>>, read |-> <<>>]

NoLast ==
    [op |-> "None", ip |-> 0, rb |-> 0, queue |-> <<>>,
     addrs |-> <<>>, derefs |-> <<>>, vals |-> <<>>, writes |-> <<>>]

Init ==
    \E c \in Cases, checks \in BOOLEAN :
        LET m == New(c.image, c.input)
        IN  /\ memory = m.memory
            /\ instruction_pointer = m.instruction_pointer
            /\ relative_base = m.relative_base
            /\ input = m.input
            /\ output = m.output
            /\ status = "running"
            /\ panic = "none"
            /\ overflow_checks = checks
            /\ fetched = 0
            /\ instruction = NoInstruction
            /\ last = NoLast
            /\ range = NoRange
            /\ hist = [image |-> c.image, input |-> c.input, inputs |-> 0, steps |-> 0]

(* One iteration of the loop of Computer::run: a call of step_forward, and *)
(* the break when it returned true.  A panic ends the run.                 *)
RunIteration ==
    /\ status = "running"
    /\ hist.steps < MaxSteps
    /\ \E r \in {StepForward(Machine(memory, instruction_pointer, relative_base, input, output),
                              overflow_checks)} :
           /\ ~r.m.beyond
           /\ memory' = r.m.memory
           /\ instruction_pointer' = r.m.instruction_pointer
           /\ relative_base' = r.m.relative_base
           /\ input' = r.m.input
           /\ output' = r.m.output
           /\ panic' = r.m.panic
           /\ status' = IF r.m.panic # "none" THEN "panicked"
                        ELSE IF r.halt THEN "returned" ELSE "running"
           /\ fetched' = r.word
           /\ instruction' = r.instruction
           /\ last' = [op |-> r.instruction.op_code, ip |-> instruction_pointer,
                       rb |-> relative_base, queue |-> input,
                       addrs |-> r.m.addrs, derefs |-> r.m.derefs,
                       vals |-> r.m.vals, writes |-> r.m.writes]
           /\ hist' = [hist EXCEPT !.steps = @ + 1,
                                   !.inputs = IF r.instruction.op_code = "Input"
                                                 /\ r.m.panic = "none"
                                              THEN @ + 1 ELSE @]
           /\ UNCHANGED <<overflow_checks, range>>

Next == RunIteration

Spec == Init /\ [][Next]_vars

(* test_quine: run_program on the quine with no input.  The loop of       *)
(* Computer::run has no suspension point: while step_forward has neither  *)
(* returned true nor panicked, the next iteration is taken.               *)
Quine == <<109, 1, 204, -1, 1001, 100, 1, 100, 1008, 100, 16, 101, 1006, 101, 0, 99>>

QuineInit == Init /\ hist.image = Quine /\ hist.input = <<>>

QuineSpec == QuineInit /\ [][Next]_vars /\ WF_vars(Next)

(* the runs of the programs that hold a jump instruction word and a    *)
(* negative word, carried on as the loop of Computer::run carries them *)
(* on                                                                  *)
HasJump(image) == \E i \in DOMAIN image : image[i] > 0 /\ image[i] % 100 \in {5, 6}

HasNegative(image) == \E i \in DOMAIN image : image[i] < 0

JumpInit == Init /\ HasJump(hist.image) /\ HasNegative(hist.image)

JumpSpec == JumpInit /\ [][Next]_vars /\ WF_vars(Next)

----------------------------------------------------------------------------
(* The decoder on its own: try_from applied to every value of DecodeValues *)

DecodeValues ==
    (-DecodeBound..DecodeBound)
        \cup {MinI32, MinI32 + 1, -MaxI32 + 99, MaxI32, MaxI32 - 48, MaxI32 - 46, MaxI32 - 646,
              MaxI32 - 71646}

DecodeInit ==
    LET m == New(<<99>>, <<>>)
    IN  /\ memory = m.memory
        /\ instruction_pointer = m.instruction_pointer
        /\ relative_base = m.relative_base
        /\ input = m.input
        /\ output = m.output
        /\ status = "running"
        /\ panic = "none"
        /\ overflow_checks \in BOOLEAN
        /\ fetched = 0
        /\ instruction = NoInstruction
        /\ last = NoLast
        /\ range = NoRange
        /\ hist = [image |-> <<99>>, input |-> <<>>, inputs |-> 0, steps |-> 0]

(* Instruction::try_from(value) *)
Decode ==
    /\ instruction = NoInstruction
    /\ \E value \in DecodeValues :
           /\ fetched' = value
           /\ instruction' = TryFrom(value)
           /\ UNCHANGED <<memory, instruction_pointer, relative_base, input, output,
                          status, panic, overflow_checks, last, hist, range>>

DecodeNext == Decode

DecodeSpec == DecodeInit /\ [][DecodeNext]_vars

----------------------------------------------------------------------------
(* The memory on its own: write_range, then read_range of the same range, *)
(* on an empty memory and on the memory Computer::new makes of an image.  *)

RangeWords == {-1, 0, 7}

RangeData == UNION {SeqsOfLen(RangeWords, n) : n \in 0..MaxData}

RangeInit ==
    \E image \in {<<>>, <<3, 0, 4, 0, 99>>} :
        LET m == New(image, <<>>)
        IN  /\ memory = m.memory
            /\ instruction_pointer = m.instruction_pointer
            /\ relative_base = m.relative_base
            /\ input = m.input
            /\ output = m.output
            /\ status = "running"
            /\ panic = "none"
            /\ overflow_checks \in BOOLEAN
            /\ fetched = 0
            /\ instruction = NoInstruction
            /\ last = NoLast
            /\ range = NoRange
            /\ hist = [image |-> image, input |-> <<>>, inputs |-> 0, steps |-> 0]

(* data[addr] of write_range is out of bounds for an address of the range *)
IndexPanics(start, end, data) == \E addr \in start..(end - 1) : addr >= Len(data)

(* memory.write_range(start..start + data.len(), data).  The index panic *)
(* of data[addr] ends the call at the first address past the data: the   *)
(* addresses before it are written.                                      *)
WriteRangeCall ==
    /\ range.op = "none"
    /\ \E start \in 0..MaxStart, data \in RangeData :
           \E end \in {start + Len(data)} :
               /\ range' = [op |-> "written", start |-> start, end |-> end,
                            data |-> data, read |-> <<>>]
               /\ memory' = IF IndexPanics(start, end, data)
                                THEN WriteRange(memory, start, Len(data), data)
                                ELSE WriteRange(memory, start, end, data)
               /\ status' = IF IndexPanics(start, end, data) THEN "panicked" ELSE "running"
               /\ panic' = IF IndexPanics(start, end, data) THEN "index" ELSE "none"
               /\ UNCHANGED <<instruction_pointer, relative_base, input, output,
                              overflow_checks, fetched, instruction, last, hist>>

(* memory.read_range(start..end) of the range just written *)
ReadRangeCall ==
    /\ range.op = "written"
    /\ status = "running"
    /\ range' = [range EXCEPT !.op = "read", !.read = ReadRange(memory, range.start, range.end)]
    /\ UNCHANGED <<memory, instruction_pointer, relative_base, input, output, status,
                   panic, overflow_checks, fetched, instruction, last, hist>>

RangeNext == WriteRangeCall \/ ReadRangeCall

RangeSpec == RangeInit /\ [][RangeNext]_vars

----------------------------------------------------------------------------
(* Claims about the run *)

Stepped == hist.steps > 0

(* The address the last step resolved last, when it resolved any *)
LastAddr == last.addrs[Len(last.addrs)]

(* C1: run returns normally only when the word at the instruction pointer *)
(* is exactly 99: a returned run fetched 99 last and still points at 99,  *)
(* and a step that fetched any other word left the run running or         *)
(* panicked, never returned.                                               *)
C1_ReturnsOnlyAtHalt ==
    /\ status \in {"running", "returned", "panicked"}
    /\ status = "returned" =>
           /\ fetched = 99
           /\ ReadMemory(memory, instruction_pointer) = 99
           /\ panic = "none"
    /\ (Stepped /\ fetched # 99) =>
           /\ status \in {"running", "panicked"}
           /\ (status = "panicked") = (panic # "none")

(* a run that executed instructions, produced output and then returned *)
C1_Witness ==
    /\ status = "returned"
    /\ hist.steps > 2
    /\ output # <<>>

(* C2: the Halt step changes nothing: from a state whose word at the       *)
(* instruction pointer is 99 the step leaves memory, instruction pointer,  *)
(* relative base, input queue and output as they were (and the run         *)
(* returns); a program whose first word is 99 ends with empty output and   *)
(* with memory holding exactly the initial image.                          *)
C2_HaltStep ==
    (status = "running" /\ ReadMemory(memory, instruction_pointer) = 99) =>
        /\ UNCHANGED <<memory, instruction_pointer, relative_base, input, output>>
        /\ status' = "returned"

C2_HaltFirst ==
    (hist.image[1] = 99 /\ status # "running") =>
        /\ status = "returned"
        /\ output = <<>>
        /\ DOMAIN memory = 0..(Len(hist.image) - 1)
        /\ \A a \in DOMAIN memory : memory[a] = hist.image[a + 1]
        /\ instruction_pointer = 0
        /\ relative_base = 0
        /\ input = hist.input

(* C2: every step taken at a word 99 is the unchanged-state step above,  *)
(* and every run of a program whose first word is 99 ends as stated.     *)
C2_HaltChangesNothing == [][C2_HaltStep]_vars /\ []C2_HaltFirst

(* a program of several words that starts with 99, run with input, has returned *)
C2_Witness ==
    /\ status = "returned"
    /\ hist.image[1] = 99
    /\ Len(hist.image) > 1
    /\ hist.input # <<>>

C4_ResolvedAddressesNonNegative ==
    /\ \A i \in DOMAIN last.addrs :
           last.addrs[i] < 0 =>
               /\ status = "panicked"
               /\ panic = "invalid_address"
               /\ i = Len(last.addrs)
               /\ last.writes = <<>>
    /\ \A i \in DOMAIN last.derefs : last.derefs[i] >= 0
    /\ \A i \in DOMAIN last.writes : last.writes[i][1] >= 0
    /\ \A a \in DOMAIN memory : a >= 0

(* a Relative-mode parameter resolved below zero after an operand was read *)
C4_Witness ==
    /\ panic = "invalid_address"
    /\ Len(last.addrs) > 1
    /\ LastAddr < 0
    /\ last.rb # 0
    /\ instruction.parameter_modes[Len(last.addrs)] = "Relative"

(* C5: IncrementRelativeBase adds its resolved signed value v to the      *)
(* relative base, for positive, zero and negative v, with no panic and no  *)
(* wraparound: after the step the register holds the number it held before *)
(* plus v.  (A register reading below zero denotes the usize reading+2^64, *)
(* so the register holds the sum only if the reading is the sum of the     *)
(* readings and has stayed on the same side of zero.)                      *)
C5_RelativeBaseIsSignedSum ==
    (Stepped /\ last.op = "IncrementRelativeBase" /\ last.vals # <<>>) =>
        /\ status = "running"
        /\ panic = "none"
        /\ relative_base = last.rb + last.vals[1]
        /\ (relative_base < 0) = (last.rb < 0)

(* C10: the input queue is consumed front to back: the queue left is the   *)
(* initial input without its first hist.inputs elements, where hist.inputs *)
(* counts the Input instructions executed; a step that is not an executed  *)
(* Input leaves the queue as it was, an executed Input removes exactly the *)
(* front element, and the k-th executed Input stores the k-th element of   *)
(* the initial input at its destination address.                           *)
C10_InputConsumedInOrder ==
    /\ hist.inputs \in 0..Len(hist.input)
    /\ input = SubSeq(hist.input, hist.inputs + 1, Len(hist.input))
    /\ Stepped =>
           IF last.op = "Input" /\ status # "panicked"
           THEN /\ hist.inputs >= 1
                /\ last.queue # <<>>
                /\ input = Tail(last.queue)
                /\ Len(last.addrs) = 1
                /\ last.writes = <<<<last.addrs[1], hist.input[hist.inputs]>>>>
                /\ ReadMemory(memory, last.addrs[1]) = hist.input[hist.inputs]
           ELSE input = last.queue

(* the third Input instruction of a run stored the third input *)
C10_Witness ==
    /\ last.op = "Input"
    /\ status = "running"
    /\ hist.inputs = 3
    /\ hist.input[1] # hist.input[3]
    /\ hist.input[2] # hist.input[3]
    /\ ReadMemory(memory, last.addrs[1]) = hist.input[3]

----------------------------------------------------------------------------
(* Claims about the decoder.  They read the decoded value by plain         *)
(* arithmetic on the integer: Remainder is Rust's value % 100, Digit the   *)
(* decimal digit of a non-negative value at a power of ten.                *)

Remainder(value) ==
    IF value >= 0 \/ value % 100 = 0 THEN value % 100 ELSE (value % 100) - 100

Digit(value, power) ==
    CASE power = 2 -> (value \div 100) % 10
      [] power = 3 -> (value \div 1000) % 10
      [] power = 4 -> (value \div 10000) % 10

Operation(number) ==
    <<"Add", "Mul", "Input", "Output", "JumpIfNotZero", "JumpIfZero",
      "StoreIfLessThan", "StoreIfEquals", "IncrementRelativeBase">>[number]

Parameters(number) == <<3, 3, 1, 1, 2, 2, 3, 3, 1>>[number]

ModeName(digit) == <<"Position", "Immediate", "Relative">>[digit + 1]

Tried == instruction.kind # "None"

(* the mode digits of the parameters of the operation of a value *)
DeclaredDigits(value) ==
    {Digit(value, i + 2) : i \in 0..(Parameters(Remainder(value)) - 1)}

(* C6 as stated: try_from succeeds with the operation numbered value % 100 *)
(* when that is one of 1..9, yields Halt exactly for the value 99, and     *)
(* returns the invalid-instruction error for every other value.            *)
C6_Original ==
    Tried =>
        /\ Remainder(fetched) \in 1..9 =>
               /\ instruction.kind = "Ok"
               /\ instruction.op_code = Operation(Remainder(fetched))
        /\ (instruction.op_code = "Halt") = (fetched = 99)
        /\ (Remainder(fetched) \notin 1..9 /\ fetched # 99) => instruction = Err

(* C6 as amended: try_from succeeds with the operation numbered value % 100 *)
(* when that is one of 1..9 and the mode digits of that operation's         *)
(* parameters are all in {0,1,2} (with another digit there it does not      *)
(* succeed), yields Halt exactly for the value 99, and returns the          *)
(* invalid-instruction error for every other value.                         *)
C6_OpcodeSelection ==
    Tried =>
        /\ (Remainder(fetched) \in 1..9 /\ DeclaredDigits(fetched) \subseteq {0, 1, 2}) =>
               /\ instruction.kind = "Ok"
               /\ instruction.op_code = Operation(Remainder(fetched))
        /\ (Remainder(fetched) \in 1..9 /\ ~(DeclaredDigits(fetched) \subseteq {0, 1, 2})) =>
               instruction.kind # "Ok"
        /\ (instruction.op_code = "Halt") = (fetched = 99)
        /\ (instruction.kind = "Ok" /\ instruction.op_code = "Halt") = (fetched = 99)
        /\ (Remainder(fetched) \notin 1..9 /\ fetched # 99) => instruction = Err

(* a value whose last two digits are 99 but which is not 99 was refused *)
C6_Witness ==
    /\ fetched = 1099
    /\ instruction = Err

(* C7: decoding a value with a parameter-mode digit outside {0,1,2} fails *)
(* with the invalid-instruction error, an Err result.                      *)
C7_BadModeDigitIsErr ==
    (Tried /\ Remainder(fetched) \in 1..9 /\ ~(DeclaredDigits(fetched) \subseteq {0, 1, 2})) =>
        instruction = Err

(* C8: a successful decode has 3 modes for Add/Mul/StoreIfLessThan/       *)
(* StoreIfEquals, 2 for the jumps, 1 for Input/Output/                     *)
(* IncrementRelativeBase and 0 for Halt, and mode i (from 0) is Position,  *)
(* Immediate or Relative as the digit (value / 10^(i+2)) % 10 is 0, 1, 2.  *)
C8_ParameterModes ==
    (Tried /\ instruction.kind = "Ok") =>
        /\ fetched > 0
        /\ Len(instruction.parameter_modes) =
               (CASE instruction.op_code \in {"Add", "Mul", "StoreIfLessThan", "StoreIfEquals"} -> 3
                  [] instruction.op_code \in {"JumpIfNotZero", "JumpIfZero"} -> 2
                  [] instruction.op_code \in {"Input", "Output", "IncrementRelativeBase"} -> 1
                  [] instruction.op_code = "Halt" -> 0)
        /\ \A i \in 0..(Len(instruction.parameter_modes) - 1) :
               /\ Digit(fetched, i + 2) \in {0, 1, 2}
               /\ instruction.parameter_modes[i + 1] = ModeName(Digit(fetched, i + 2))

(* a three-parameter value with three different mode digits was decoded *)
C8_Witness ==
    /\ fetched = 21002
    /\ instruction = Ok("Mul", <<"Position", "Immediate", "Relative">>)

----------------------------------------------------------------------------
(* Claims about the instructions.  They are stated on the step: the        *)
(* unprimed variables are the state at the fetch, the primed ones the      *)
(* state after the instruction.                                            *)

(* the step executed an instruction with this operation to its end *)
Executed(op) == instruction'.op_code = op /\ status' = "running"

(* the raw word of parameter i (from 1) of the instruction at the fetch *)
RawWord(i) == ReadMemory(memory, instruction_pointer + i)

(* q is p with elements added at the end *)
IsPrefix(p, q) == Len(p) <= Len(q) /\ SubSeq(q, 1, Len(p)) = p

C11_Step ==
    /\ IsPrefix(output, output')
    /\ IF Executed("Output")
       THEN /\ Len(last'.vals) = 1
            /\ output' = Append(output, last'.vals[1])
            /\ last'.vals[1] =
                   IF instruction'.parameter_modes[1] = "Immediate" THEN RawWord(1)
                   ELSE ReadMemory(memory, last'.addrs[1])
       ELSE output' = output

(* C11: the output is append-only and in emission order: it is empty at    *)
(* construction, each executed Output instruction appends exactly its one  *)
(* resolved value at the end, no other step changes it, and the output of  *)
(* a state is a prefix of the output of the next.                          *)
C11_OutputAppendOnly == [][C11_Step]_vars /\ [](~Stepped => output = <<>>)

(* an Output instruction has added a third value, different from the first two *)
C11_Witness ==
    /\ last.op = "Output"
    /\ status = "running"
    /\ Len(output) = 3
    /\ output[3] = last.vals[1]
    /\ output[3] # output[1]
    /\ output[3] # output[2]

(* the word memory mem holds at address a, zero where it holds none *)
WordAt(mem, a) == IF a \in DOMAIN mem THEN mem[a] ELSE 0

(* the number of the address, among those the step resolved, that read *)
(* parameter i of the instruction was read from                        *)
AddrIndex(modes, i) == Cardinality({j \in 1..i : modes[j] # "Immediate"})

(* addresses looked at from outside: around the image and far beyond it *)
Probes == (0..(Len(hist.image) + 2)) \cup {1966, MaxI32 - 3, MaxI32 - 2}

C12_State ==
    /\ ~Stepped =>
           /\ DOMAIN memory = 0..(Len(hist.image) - 1)
           /\ \A a \in DOMAIN memory : memory[a] = hist.image[a + 1]
    /\ \A a \in Probes :
           /\ ReadRange(memory, a, a + 2) = <<WordAt(memory, a), WordAt(memory, a + 1)>>
           /\ a \notin DOMAIN memory => ReadRange(memory, a, a + 1) = <<0>>

C12_Step ==
    /\ Len(last'.writes) <= 1
    /\ last'.writes = <<>> => memory' = memory
    /\ last'.writes # <<>> =>
           /\ last'.writes[1][1] >= 0
           /\ status' = "running"
           /\ DOMAIN memory' = DOMAIN memory \cup {last'.writes[1][1]}
           /\ memory'[last'.writes[1][1]] = last'.writes[1][2]
           /\ \A a \in DOMAIN memory : a # last'.writes[1][1] => memory'[a] = memory[a]
    /\ \A i \in DOMAIN last'.vals :
           instruction'.parameter_modes[i] # "Immediate" =>
               last'.vals[i] =
                   WordAt(memory, last'.addrs[AddrIndex(instruction'.parameter_modes, i)])
    /\ (/\ instruction'.op_code \in {"Add", "Mul", "Input", "StoreIfLessThan", "StoreIfEquals"}
        /\ Len(last'.addrs) = AddrIndex(instruction'.parameter_modes,
                                        Len(instruction'.parameter_modes) - 1) + 1
        /\ last'.addrs[Len(last'.addrs)] >= 0) =>
           \/ /\ status' = "running"
              /\ Len(last'.writes) = 1
              /\ last'.writes[1][1] = last'.addrs[Len(last'.addrs)]
           \/ /\ panic' \in {"input_exhausted", "overflow"}
              /\ last'.writes = <<>>

(* C12: memory is unbounded and zero-defaulted.  At construction it holds  *)
(* the image and nothing else; a step changes it only by its one write,    *)
(* which adds the (non-negative) address to the memory wherever it lies    *)
(* and does not fault: an instruction whose destination resolved to a      *)
(* non-negative address writes there, unless its operation panicked (no    *)
(* input, arithmetic overflow); an operand read from an address returns    *)
(* the word held there, which is the last one written or the image's, and  *)
(* 0 when the address holds none; read_range returns the same words.       *)
C12_ZeroDefaultedMemory == [][C12_Step]_vars /\ []C12_State

(* a word written far beyond the image, and written again, was read back, *)
(* and an address nothing was written to was read as 0                    *)
C12_Witness ==
    /\ (MaxI32 - 1) \in DOMAIN memory
    /\ (MaxI32 - 1) > Len(hist.image)
    /\ memory[MaxI32 - 1] = 11
    /\ output = <<3, 0, 11>>
    /\ 1966 \notin DOMAIN memory
    /\ last.op = "Output"

(* s is the mathematical sum a + b of two words (FALSE when the sum is no word) *)
IsSum(s, a, b) ==
    IF (b > 0 /\ a > MaxI32 - b) \/ (b < 0 /\ a < MinI32 - b) THEN FALSE
    ELSE s = a + b

(* s is the mathematical product a * b of two words (FALSE when it is no word) *)
IsProduct(s, a, b) ==
    IF a = 0 \/ b = 0 THEN s = 0
    ELSE IF a = MinI32 THEN b = 1 /\ s = MinI32
    ELSE IF b = MinI32 THEN a = 1 /\ s = MinI32
    ELSE IF a = -1 THEN s = -b
    ELSE s % Abs(a) = 0 /\ s \div a = b

(* the step ran an instruction of this operation whose read parameters and *)
(* destination address all resolved                                        *)
Resolved(op, reads) ==
    /\ status = "running"
    /\ instruction'.op_code = op
    /\ Len(last'.vals) = reads
    /\ Len(last'.addrs) > 0
    /\ last'.addrs[Len(last'.addrs)] >= 0
    /\ Len(last'.addrs) = AddrIndex(instruction'.parameter_modes, reads) + 1

C13_Step ==
    /\ Resolved("Add", 2) =>
           /\ status' = "running"
           /\ Len(last'.writes) = 1
           /\ last'.writes[1][1] = last'.addrs[Len(last'.addrs)]
           /\ IsSum(last'.writes[1][2], last'.vals[1], last'.vals[2])
    /\ Resolved("Mul", 2) =>
           /\ status' = "running"
           /\ Len(last'.writes) = 1
           /\ last'.writes[1][1] = last'.addrs[Len(last'.addrs)]
           /\ IsProduct(last'.writes[1][2], last'.vals[1], last'.vals[2])

(* C13: Add stores operand1 + operand2 and Mul stores operand1 x operand2  *)
(* at the destination address, for all operand words: the step does not    *)
(* panic and the stored word is the exact mathematical sum or product.     *)
C13_ExactArithmetic == [][C13_Step]_vars

C14_Step ==
    /\ Resolved("StoreIfLessThan", 2) =>
           /\ status' = "running"
           /\ last'.writes =
                  <<<<last'.addrs[Len(last'.addrs)],
                      IF last'.vals[1] < last'.vals[2] THEN 1 ELSE 0>>>>
           /\ memory'[last'.addrs[Len(last'.addrs)]] \in {0, 1}
           /\ (memory'[last'.addrs[Len(last'.addrs)]] = 1) = (last'.vals[1] < last'.vals[2])
    /\ Resolved("StoreIfEquals", 2) =>
           /\ status' = "running"
           /\ last'.writes =
                  <<<<last'.addrs[Len(last'.addrs)],
                      IF last'.vals[1] = last'.vals[2] THEN 1 ELSE 0>>>>
           /\ memory'[last'.addrs[Len(last'.addrs)]] \in {0, 1}
           /\ (memory'[last'.addrs[Len(last'.addrs)]] = 1) = (last'.vals[1] = last'.vals[2])
    /\ instruction'.op_code \in {"StoreIfLessThan", "StoreIfEquals"} =>
           \A i \in DOMAIN last'.writes : last'.writes[i][2] \in {0, 1}

(* C14: StoreIfLessThan stores 1 at its destination address when           *)
(* operand1 < operand2 and 0 otherwise, StoreIfEquals stores 1 when        *)
(* operand1 = operand2 and 0 otherwise, for all operand words, negative    *)
(* ones included; the word stored is always 0 or 1.                        *)
C14_Comparisons == [][C14_Step]_vars

(* the least word was found less than the greatest, both read through the *)
(* relative base                                                          *)
C14_Witness ==
    /\ last.op = "StoreIfLessThan"
    /\ last.vals = <<MinI32, MaxI32>>
    /\ last.rb # 0
    /\ last.writes = <<<<13, 1>>>>
    /\ ReadMemory(memory, 13) = 1

(* the value read parameter i of the step's instruction must resolve to: *)
(* the raw word in Immediate mode, else the word at the resolved address  *)
ValueRead(i) ==
    IF instruction'.parameter_modes[i] = "Immediate" THEN RawWord(i)
    ELSE WordAt(memory, last'.addrs[AddrIndex(instruction'.parameter_modes, i)])

(* the jump instruction of the step is taken *)
Taken == IF instruction'.op_code = "JumpIfNotZero" THEN last'.vals[1] # 0 ELSE last'.vals[1] = 0

(* what every executed jump does, but for where a taken jump leaves the pointer *)
JumpReads ==
    /\ Len(last'.vals) = 2
    /\ last'.vals[1] = ValueRead(1)
    /\ last'.vals[2] = ValueRead(2)
    /\ instruction'.parameter_modes[2] = "Position" =>
           last'.addrs[AddrIndex(instruction'.parameter_modes, 2)] = RawWord(2)
    /\ ~Taken => instruction_pointer' = instruction_pointer + 3

(* C15 as stated: JumpIfNotZero (opcode 5) sets the instruction pointer to *)
(* its second resolved value exactly when its first is non-zero,           *)
(* JumpIfZero (opcode 6) exactly when its first is zero; an untaken jump   *)
(* leaves the pointer at the old pointer + 3; the target is the raw word   *)
(* in Immediate mode and the memory content at the resolved address        *)
(* otherwise.  (The register holds the number it was set to only when its  *)
(* reading is that number and is not negative.)                            *)
C15_Original ==
    [][(Executed("JumpIfNotZero") \/ Executed("JumpIfZero")) =>
           /\ JumpReads
           /\ Taken => /\ instruction_pointer' = last'.vals[2]
                       /\ instruction_pointer' >= 0]_vars

(* C15 as amended: as stated when the second resolved value t is not       *)
(* negative; a taken jump whose t is negative leaves the pointer register  *)
(* at t converted to usize, which is t + 2^64 (the reading t).             *)
C15_Jumps ==
    [][(Executed("JumpIfNotZero") \/ Executed("JumpIfZero")) =>
           /\ JumpReads
           /\ Taken => /\ instruction_pointer' = I32AsUsize(last'.vals[2])
                       /\ (instruction_pointer' >= 0) = (last'.vals[2] >= 0)]_vars

(* a JumpIfZero in Relative mode was taken to a target read from memory, *)
(* and a JumpIfNotZero after it was not taken                             *)
C15_Witness ==
    /\ last.op = "JumpIfNotZero"
    /\ last.ip = 7
    /\ last.rb = 2
    /\ last.vals = <<0, 0>>
    /\ instruction_pointer = 10
    /\ hist.steps = 3

(* the number of value read parameters of an operation; they come first *)
ReadCount(op) ==
    CASE op \in {"Add", "Mul", "StoreIfLessThan", "StoreIfEquals"} -> 2
      [] op \in {"JumpIfNotZero", "JumpIfZero"} -> 2
      [] op \in {"Output", "IncrementRelativeBase"} -> 1
      [] OTHER -> 0

(* relative base + w is above every word: an address of memory, at which *)
(* nothing is held, no key of the memory being above MaxI32              *)
AboveWords(w) == w > 0 /\ relative_base > MaxI32 - w

(* the address of a read parameter with raw word w is non-negative *)
AddressNonNegative(mode, w) ==
    CASE mode = "Immediate" -> TRUE
      [] mode = "Position" -> w >= 0
      [] mode = "Relative" -> AboveWords(w) \/ relative_base >= -w

(* the value the claim gives a read parameter with raw word w *)
ValueByMode(mode, w) ==
    CASE mode = "Immediate" -> w
      [] mode = "Position" -> WordAt(memory, w)
      [] mode = "Relative" -> IF AboveWords(w) THEN 0 ELSE WordAt(memory, relative_base + w)

(* C16: a read parameter with raw word w resolves to w in Immediate mode,  *)
(* to the memory content at w in Position mode and to the memory content   *)
(* at relative base + w in Relative mode, for every reachable relative     *)
(* base and every w for which that address is non-negative: each read      *)
(* parameter of a step, the ones before it being resolved, is resolved to  *)
(* that value.  (The relative base is taken by its signed reading.)        *)
C16_ValueResolution ==
    [][(status = "running" /\ instruction'.kind = "Ok") =>
           \A i \in 1..ReadCount(instruction'.op_code) :
               (Len(last'.vals) >= i - 1
                    /\ AddressNonNegative(instruction'.parameter_modes[i], RawWord(i))) =>
                   /\ Len(last'.vals) >= i
                   /\ last'.vals[i] = ValueByMode(instruction'.parameter_modes[i], RawWord(i))]_vars

(* the operations whose last parameter is the destination of a write *)
Writers == {"Add", "Mul", "Input", "StoreIfLessThan", "StoreIfEquals"}

(* the mode the destination parameter of the step's instruction was decoded as *)
DestinationMode == instruction'.parameter_modes[Len(instruction'.parameter_modes)]

(* C17: Immediate mode is never used to produce a write address: no Add,   *)
(* Mul, Input, StoreIfLessThan or StoreIfEquals instruction whose          *)
(* destination parameter was decoded as Immediate writes to memory.        *)
C17_NoImmediateWriteAddress ==
    [][(instruction'.kind = "Ok" /\ instruction'.op_code \in Writers
            /\ DestinationMode = "Immediate") =>
           /\ last'.writes = <<>>
           /\ memory' = memory]_vars

QuineRun == hist.image = Quine /\ hist.input = <<>>

(* C18: the run of the quine program with empty input reaches Halt without *)
(* a panic and its final output is the image, element for element: while   *)
(* it runs the output is a prefix of the image and nothing has panicked,   *)
(* when it has ended it has returned with the image as output, and it does *)
(* end.                                                                    *)
C18_QuineRun ==
    /\ [](QuineRun =>
             /\ panic = "none"
             /\ status \in {"running", "returned"}
             /\ IsPrefix(output, Quine)
             /\ status = "returned" => output = Quine)
    /\ (QuineRun ~> (QuineRun /\ status = "returned" /\ output = Quine))

(* the quine has halted, having put out its sixteen words *)
C18_Witness ==
    /\ QuineRun
    /\ status = "returned"
    /\ Len(output) = 16
    /\ output[16] = 99
    /\ fetched = 99

C19_Step ==
    /\ status # "panicked"
    /\ instruction'.kind # "Ok" => status' = "panicked" /\ panic' \in {"decode", "unreachable"}
    /\ (last'.addrs # <<>> /\ last'.addrs[Len(last'.addrs)] < 0) =>
           status' = "panicked" /\ panic' = "invalid_address"
    /\ (instruction'.op_code = "Input" /\ input = <<>>) => status' = "panicked"
    /\ status' = "panicked" =>
           /\ panic' # "none"
           /\ memory' = memory
           /\ last'.writes = <<>>
           /\ output' = output
           /\ relative_base' = relative_base
           /\ input' = input
           /\ panic' \in {"decode", "unreachable"} => instruction_pointer' = instruction_pointer

(* C19: a fault is fatal and immediate.  A word that does not decode, a    *)
(* negative resolved address and an Input on an empty queue each end the   *)
(* run in the step of that instruction; the step that panics (for these or *)
(* any other reason) leaves memory, output, relative base and input queue  *)
(* as they were; and no step is taken from a panicked state.               *)
C19_FaultsAreFatal ==
    /\ [][C19_Step]_vars
    /\ []((status = "panicked") = (panic # "none"))

(* an Add whose operands resolved found its destination address negative, *)
(* after the run had put out a word and moved the relative base           *)
C19_Witness ==
    /\ status = "panicked"
    /\ panic = "invalid_address"
    /\ last.op = "Add"
    /\ Len(last.vals) = 2
    /\ output # <<>>
    /\ relative_base # 0
    /\ DOMAIN memory = 0..(Len(hist.image) - 1)
    /\ \A a \in DOMAIN memory : memory[a] = hist.image[a + 1]

(* the words an instruction of this operation takes: itself and its parameters *)
StepLength(op) ==
    CASE op \in {"Add", "Mul", "StoreIfLessThan", "StoreIfEquals"} -> 4
      [] op \in {"JumpIfNotZero", "JumpIfZero"} -> 3
      [] op \in {"Input", "Output", "IncrementRelativeBase"} -> 2

(* the number, among the addresses the step resolved, of the address of *)
(* parameter i: a destination comes last                                *)
ParamAddr(i) ==
    IF i <= ReadCount(instruction'.op_code) THEN AddrIndex(instruction'.parameter_modes, i)
    ELSE Len(last'.addrs)

(* the sum of two words is a word *)
SumFits(a, b) == ~((b > 0 /\ a > MaxI32 - b) \/ (b < 0 /\ a < MinI32 - b))

(* parameter i was resolved from the i-th word after the instruction word *)
ConsumesWord(i) ==
    IF i <= ReadCount(instruction'.op_code) /\ instruction'.parameter_modes[i] = "Immediate"
    THEN last'.vals[i] = RawWord(i)
    ELSE IF instruction'.parameter_modes[i] = "Relative"
    THEN SumFits(relative_base, RawWord(i)) =>
             last'.addrs[ParamAddr(i)] = relative_base + RawWord(i)
    ELSE last'.addrs[ParamAddr(i)] = RawWord(i)

(* the step ran an instruction, other than Halt, to its end *)
Succeeded == status' = "running" /\ instruction'.kind = "Ok"

(* the step was a jump that was taken *)
TakenJump == instruction'.op_code \in {"JumpIfNotZero", "JumpIfZero"} /\ Taken

C20_Step ==
    Succeeded =>
        /\ \A i \in 1..(StepLength(instruction'.op_code) - 1) : ConsumesWord(i)
        /\ Len(last'.vals) = ReadCount(instruction'.op_code)
        /\ ~TakenJump =>
               instruction_pointer' = instruction_pointer + StepLength(instruction'.op_code)

(* C20: parameters are resolved left to right, each from one word: the     *)
(* i-th parameter from the i-th word after the instruction word; after an  *)
(* instruction executed to its end, other than a taken jump, the           *)
(* instruction pointer is its value at the fetch plus 4 for Add, Mul,      *)
(* StoreIfLessThan and StoreIfEquals, plus 3 for an untaken jump, plus 2   *)
(* for Input, Output and IncrementRelativeBase, whatever the modes.        *)
C20_PointerAdvance == [][C20_Step]_vars

(* an Add with a Position, an Immediate and a Position parameter, not at *)
(* the start of the program, moved the pointer on by four                *)
C20_Witness ==
    /\ last.op = "Add"
    /\ status = "running"
    /\ instruction.parameter_modes = <<"Position", "Immediate", "Position">>
    /\ last.ip > 0
    /\ instruction_pointer = last.ip + 4

C21_Step ==
    /\ (instruction'.op_code \in Writers /\ status' = "running") =>
           /\ Len(last'.writes) = 1
           /\ last'.writes[1][1] = last'.addrs[Len(last'.addrs)]
           /\ DOMAIN memory' = DOMAIN memory \cup {last'.writes[1][1]}
           /\ memory'[last'.writes[1][1]] = last'.writes[1][2]
           /\ \A a \in DOMAIN memory : a # last'.writes[1][1] => memory'[a] = memory[a]
           /\ relative_base' = relative_base
           /\ output' = output
    /\ (instruction'.op_code \notin Writers \/ status' # "running") =>
           /\ memory' = memory
           /\ last'.writes = <<>>
    /\ relative_base' # relative_base => Executed("IncrementRelativeBase")
    /\ input' # input => Executed("Input")
    /\ output' # output => Executed("Output")

(* C21: side effects are confined per operation.  An executed Add, Mul,    *)
(* Input, StoreIfLessThan or StoreIfEquals writes exactly one address, its *)
(* destination, and leaves every other address, the relative base and the  *)
(* output as they were; no other step changes memory; the relative base is *)
(* 0 at construction and only an executed IncrementRelativeBase changes    *)
(* it; only an executed Input changes the input queue.                     *)
C21_ConfinedEffects ==
    /\ [][C21_Step]_vars
    /\ [](~Stepped => relative_base = 0 /\ input = hist.input)

(* an Input wrote a word beyond the image, in a run that had moved the *)
(* relative base, and left base and output alone                       *)
C21_Witness ==
    /\ last.op = "Input"
    /\ status = "running"
    /\ last.rb # 0
    /\ relative_base = last.rb
    /\ Len(last.writes) = 1
    /\ last.writes[1][1] >= Len(hist.image)
    /\ DOMAIN memory = (0..(Len(hist.image) - 1)) \cup {last.writes[1][1]}

C22_Step ==
    /\ fetched' = WordAt(memory, instruction_pointer)
    /\ instruction' = TryFrom(WordAt(memory, instruction_pointer))
    /\ (status' = "returned") = (WordAt(memory, instruction_pointer) = 99)
    /\ instruction'.kind = "Ok" =>
           \A i \in DOMAIN last'.vals :
               instruction'.parameter_modes[i] = "Immediate" =>
                   last'.vals[i] = WordAt(memory, instruction_pointer + i)

(* C22: every fetch decodes the word memory holds at the instruction       *)
(* pointer when the step begins, not the word of the image: the word       *)
(* fetched, the instruction decoded and executed, and the Immediate        *)
(* operands are those of the current memory, and the run returns exactly   *)
(* when that word is 99.                                                   *)
C22_FetchesCurrentMemory == [][C22_Step]_vars

(* the run halted at a 99 an earlier instruction had written over a word *)
(* of the image that did not decode                                      *)
C22_Witness ==
    /\ status = "returned"
    /\ fetched = 99
    /\ (last.ip + 1) \in DOMAIN hist.image
    /\ hist.image[last.ip + 1] = 33
    /\ memory[last.ip] = 99

(* the pointer register holds a negative word converted to usize: it is *)
(* at or above 2^64 - 2^31, beyond every address that holds a word      *)
PointerBeyond == instruction_pointer < 0

C23_Step ==
    /\ PointerBeyond =>
           /\ status' = "panicked"
           /\ panic' = "decode"
           /\ fetched' = 0
           /\ UNCHANGED <<memory, instruction_pointer, relative_base, input, output>>
    /\ (TakenJump /\ status' = "running" /\ last'.vals[2] < 0) =>
           /\ instruction_pointer' = I32AsUsize(last'.vals[2])
           /\ instruction_pointer' < 0
           /\ instruction_pointer' \notin DOMAIN memory'

(* C23: a taken jump whose target is negative never lets execution go on  *)
(* at a valid address: the jump leaves the pointer beyond every address    *)
(* that holds a word; the pointer is there only after such a jump; from    *)
(* there no instruction is executed: the one step that follows fetches 0   *)
(* and panics in the decoder, changing nothing, and it does follow.        *)
C23_NegativeJumpFaults ==
    /\ [][C23_Step]_vars
    /\ []((status = "running" /\ PointerBeyond) =>
             /\ last.op \in {"JumpIfNotZero", "JumpIfZero"}
             /\ Len(last.vals) = 2
             /\ last.vals[2] = instruction_pointer)
    /\ ((status = "running" /\ PointerBeyond) ~> (status = "panicked" /\ PointerBeyond))

(* after a jump to a negative target the run ended in the decoder, the  *)
(* pointer still beyond every word                                      *)
C23_Witness ==
    /\ status = "panicked"
    /\ panic = "decode"
    /\ instruction_pointer = MinI32
    /\ hist.steps = 4
    /\ output = <<5>>
    /\ fetched = 0

----------------------------------------------------------------------------
(* the mode digits of the declared parameters of operation number, in order *)
DigitsOf(value, number) == [i \in 1..Parameters(number) |-> Digit(value, i + 1)]

(* what a value whose last two digits name operation number, with these *)
(* digits for its parameters, decodes to                                *)
DecodesTo(number, digits) ==
    IF \A i \in DOMAIN digits : digits[i] \in {0, 1, 2}
    THEN Ok(Operation(number), [i \in DOMAIN digits |-> ModeName(digits[i])])
    ELSE Unreachable

(* C24 as stated: the result for a non-negative value depends only on      *)
(* value mod 100 and on the mode digits of the parameters of the operation *)
(* that names: it is the same for all values that agree on these,          *)
(* whatever the higher digits are.                                         *)
C24_Original ==
    (Tried /\ fetched >= 0) =>
        instruction =
            IF Remainder(fetched) \in 1..9
            THEN DecodesTo(Remainder(fetched), DigitsOf(fetched, Remainder(fetched)))
            ELSE IF Remainder(fetched) = 99 THEN Ok("Halt", <<>>)
            ELSE Err

(* C24 as amended: as stated for the operations 1..9; a value whose last   *)
(* two digits are 99 is Halt only when it is 99 itself, and any higher     *)
(* digit makes it the invalid-instruction error.                           *)
C24_HigherDigitsIgnored ==
    (Tried /\ fetched >= 0) =>
        instruction =
            IF Remainder(fetched) \in 1..9
            THEN DecodesTo(Remainder(fetched), DigitsOf(fetched, Remainder(fetched)))
            ELSE IF fetched = 99 THEN Ok("Halt", <<>>)
            ELSE Err

(* 30003 was decoded like 3 *)
C24_Witness ==
    /\ fetched = 30003
    /\ instruction = Ok("Input", <<"Position">>)
    /\ instruction = DecodesTo(3, DigitsOf(3, 3))

----------------------------------------------------------------------------
(* C25: range round trip of memory: after write_range(r, data) with data   *)
(* of the length of r, element i of data is stored at address r.start + i  *)
(* (the call does not panic), and read_range(r) returns data; after        *)
(* Computer::new(image, input), read_range(0..len(image)) returns image.   *)
C25_RangeRoundTrip ==
    /\ range.op = "none" => ReadRange(memory, 0, Len(hist.image)) = hist.image
    /\ range.op # "none" =>
           /\ status = "running"
           /\ \A i \in DOMAIN range.data :
                  WordAt(memory, range.start + i - 1) = range.data[i]
    /\ range.op = "read" => range.read = range.data

====
